---- MODULE Spec2Model ----
(***************************************************************************)
(* watchman: paginated fetch, normalisation and warehouse loading of       *)
(* Reddit posts, tweets and Yahoo-Finance close prices.                    *)
(*                                                                         *)
(* One invocation is single-threaded: pc is the position of the one thread *)
(* of control, inside an entry point (ep), TwitterWatcher (tw),            *)
(* RedditWatcher (rd) or YahooFinanceWatcher (yf).  The warehouse's query  *)
(* jobs (MERGE, TRUNCATE) run on the server, beside that thread.           *)
(***************************************************************************)
EXTENDS Integers, Sequences, FiniteSets, TLC

VARIABLES
    entry,            \* the function the host (or a library user) invoked
    pc,               \* position of the thread of control
    exc,              \* exception in flight / caught (NoExc when none)
    host_exc,         \* exception that left the entry point, reaching the host
    ep_log,           \* error messages logged by the entry point
    ep_secret_ok,     \* whether the secret variables were bound by the first try
    ep_ret,           \* what the entry point returned to the host
    header,           \* the n_round header of the request ("absent" when none)
    n_round,          \* watchman_yahoo_finance: n_round
    write_bq,         \* write_df_to_bq / write_to_bq of the call
    jobs,             \* warehouse jobs issued by the invocation, in order
    \* ---- TwitterWatcher.write_results
    max_results,      \* parameter max_results
    url,              \* self.url: the parameters of the query made last
    response,         \* the requests.Response being examined
    n_request_tries,  \* _get_page_results: n_request_tries
    df_results,       \* write_results: df_results (rows in order)
    meta_dict,        \* write_results: meta_dict of the page just fetched
    tw_pages,         \* history: meta (has next_token) of every page fetched
    tw_sleep,         \* history: seconds slept by write_results since the last page came back
    tweets_table,     \* warehouse: the tweets table
    \* ---- YahooFinanceWatcher
    yf_run,           \* number of the close-price run (1 for the first)
    tickers,          \* most_discussed_stocks_df['ticker'] after the variants
    yf_absent,        \* the tickers Yahoo Finance has no series for
    max_retry,        \* parameter max_retry
    today,            \* date.today() as the process reads it
    bi,               \* index in requests_list of the batch being worked on
    df,               \* the batch's frame: its rows ...
    df_renamed,       \* ... and whether its columns are day/ticker/close_price
    retry_count,      \* retry_count
    yahoo_finance_error, \* yahoo_finance_error
    attempts,         \* history: outcome of every attempt of the batch
    ri,               \* _retrieve_trending: index of the region
    trending_df,      \* _retrieve_trending: df
    yf_regions,       \* history: the regions requested, in order, each with its answer
    delta_table,      \* warehouse: close price delta table
    main_table,       \* warehouse: close price table
    not_found_table,  \* warehouse: ticker-not-found table
    trending_table,   \* warehouse: trending table
    merge_job,        \* server: state of the MERGE query job
    truncate_job,     \* server: state of the TRUNCATE query job
    staged,           \* history: delta and main tables when the MERGE was issued
    prev_run,         \* history: how the previous run ended, and the main table then
    \* ---- RedditWatcher
    rd_headers,       \* self.headers holds the bearer token
    communities,      \* parameter communities
    how_many_posts,   \* parameter how_many_posts
    ci,               \* index of the community of the outer loop
    rd_i,             \* the inner loop's i
    res_result,       \* res_result: the page fetched last
    posts,            \* posts (rows in order)
    rd_requests,      \* history: the listing requests issued, in order, each with its answer
    new_posts_table,  \* warehouse: new posts table
    hot_posts_table   \* warehouse: hot posts table

yfLocals == <<bi, df, df_renamed, retry_count, yahoo_finance_error, attempts,
              ri, trending_df, yf_regions>>

yfTables == <<delta_table, main_table, not_found_table, trending_table>>

yfInputs == <<tickers, yf_absent, max_retry, today>>

yfServer == <<merge_job, truncate_job, staged, prev_run>>

yfVars == <<yf_run, yfInputs, yfLocals, yfTables, yfServer>>

twVars == <<max_results, url, response, n_request_tries, df_results,
            meta_dict, tw_pages, tw_sleep, tweets_table>>

epVars == <<entry, pc, exc, host_exc, ep_log, ep_secret_ok, ep_ret, header,
           n_round, write_bq, jobs>>

epVarsButPc == <<entry, exc, host_exc, ep_log, ep_secret_ok, ep_ret, header,
                n_round, write_bq, jobs>>

\* what a watcher method leaves alone of the caller's state
epFrame == <<entry, host_exc, ep_log, ep_secret_ok, ep_ret, header, n_round,
            write_bq>>

rdInputs == <<communities, how_many_posts>>

rdLocals == <<ci, rd_i, res_result, posts>>

rdTables == <<new_posts_table, hot_posts_table>>

rdVars == <<rd_headers, rdInputs, rdLocals, rd_requests, rdTables>>

\* the state of the watchers, and of the watchers other than one
watchers == <<twVars, yfVars, rdVars>>

notTw == <<yfVars, rdVars>>

notYf == <<twVars, rdVars>>

notRd == <<twVars, yfVars>>

vars == <<epVars, twVars, yfVars, rdVars>>

----------------------------------------------------------------------------
\* Bounds of the model

\* page fetches of one Twitter run that the model follows
MaxFetches == 4

\* tickers whose rows a failing attempt may have appended before it failed
MaxPartial == 1

\* invocations of the close-price function that the model follows
MaxRuns == 2

\* how many times the date changes while an invocation runs, at most
MaxMidnights == 1

----------------------------------------------------------------------------
\* Program constants

\* max_results_per_page=100 (write_results default and every entry point)
max_results_per_page == 100

\* _get_page_results: max_request_tries = 3
max_request_tries == 3

\* write_results: time.sleep(1) at the end of a loop iteration
LoopSleep == 1

----------------------------------------------------------------------------
\* Exceptions and small helpers

Min(a, b) == IF a < b THEN a ELSE b

Range(sq) == {sq[i] : i \in 1..Len(sq)}

\* faulty variant: a record already accumulated is not appended again
AccumulateDedup(acc, page) == acc \o SelectSeq(page, LAMBDA rec : rec \notin Range(acc))

\* df_results.append(df_page_results) / posts.append(res_result)
Accumulate(acc, page) == acc \o page

\* faulty variant: the result is written whatever the flag
WriteToBqAlways(flag) == TRUE

\* `if write_df_to_bq:` / `if write_to_bq:`
WriteToBq(flag) == flag

\* faulty variant: a load job that ends DONE writes no row
BqAppendNothing(table, frame) == table

\* a load job with write_disposition="WRITE_APPEND" that ends DONE
BqAppend(table, frame) == table \o frame

NoExc == [type |-> "none", arg |-> ""]

Exc(t, a) == [type |-> t, arg |-> a]

NoResponse == [status |-> 0, has_data |-> FALSE, data |-> <<>>, users |-> <<>>,
               has_meta |-> FALSE, next_token |-> 0]

NoMeta == [has_next_token |-> FALSE, next_token |-> 0]

\* Terminal states of a job of the warehouse
JobStates == {"DONE", "FAILED"}

\* faulty variant: the state of the job is not tested
LoadFailedNever(state) == FALSE

\* `if job_status != 'DONE': raise Exception(...)`
LoadFailed(state) == state # "DONE"

----------------------------------------------------------------------------
\* Control transfer between a watcher method and its caller

EntryPoints == {"watchman", "watchman_twitter", "watchman_reddit",
                "watchman_yahoo_finance"}

DirectCalls == {"TwitterWatcher.write_results",
                "YahooFinanceWatcher.write_results",
                "YahooFinanceWatcher._retrieve_write_close_price",
                "RedditWatcher.get_new_posts", "RedditWatcher.get_hot_posts"}

\* Where the thread goes when the method at `method` returns normally.
AfterReturn(method) ==
    CASE entry = "watchman_twitter" -> "ep_end"
      [] entry = "watchman_reddit" /\ method = "get_new_posts" -> "rd_hot_start"
      [] entry = "watchman_reddit" /\ method = "get_hot_posts" -> "ep_end"
      [] entry = "watchman_yahoo_finance" -> "ep_end"
      [] entry = "watchman" /\ method = "get_new_posts" -> "rd_hot_start"
      [] entry = "watchman" /\ method = "get_hot_posts" -> "tw_start"
      [] entry = "watchman" /\ method = "write_results" -> "ep_end"
      [] OTHER -> "returned"

\* Where the thread goes when _retrieve_write_close_price returns: on to the
\* trending part of write_results, unless it was called by itself.
AfterClosePrice ==
    IF entry = "YahooFinanceWatcher._retrieve_write_close_price"
    THEN "returned" ELSE "yf_trending"

\* faulty variant: watchman catches a failure of the Reddit watcher by itself
\* and goes on with the Twitter watcher
AfterRaisePerSource ==
    IF entry = "watchman" /\ pc \in {"rd_auth", "rd_new_loop", "rd_new_load",
                                      "rd_hot_loop", "rd_hot_load"}
    THEN "tw_start"
    ELSE IF entry \in EntryPoints THEN "ep_except" ELSE "raised"

\* Where the thread goes when an exception leaves a watcher method: into the
\* entry point's `except Exception` clause, or to the library user.
AfterRaise == IF entry \in EntryPoints THEN "ep_except" ELSE "raised"

----------------------------------------------------------------------------
\* TwitterWatcher

\* the number of distinct authors of the tweets of the model
NAuthors == 3

\* One tweet of res.json()['data'].
Tweet(id, ent) == [tweet_id |-> id, has_entities |-> ent, author_id |-> id % NAuthors]

\* One user of res.json()['includes']['users'].
User(id) == [id |-> id, username |-> <<"user", id>>]

\* The users a page includes: the author 0 is never among them.
TwUsers == <<User(1), User(2)>>

\* the user fields of a tweet whose author is not included
NullUser == <<>>

\* A full page: max_results_per_page tweets, distinct from page to page.
TwFullPage(k) ==
    [i \in 1..max_results_per_page |-> Tweet(max_results_per_page * k + i, TRUE)]

\* The bodies the search endpoint may answer page k with (status 200).
TwBodies(k) ==
    { [has_data |-> FALSE, data |-> <<>>],            \* result_count = 0: no 'data'
      [has_data |-> TRUE,  data |-> <<>>],
      [has_data |-> TRUE,  data |-> <<Tweet(1, TRUE)>>],
      [has_data |-> TRUE,  data |-> <<Tweet(2, FALSE)>>],
      [has_data |-> TRUE,  data |-> TwFullPage(k)] }

\* Every response the server may give to the request of page k.
TwResponses(k) ==
    { [status |-> 200, has_data |-> b.has_data, data |-> b.data, users |-> TwUsers,
       has_meta |-> TRUE, next_token |-> t] : b \in TwBodies(k), t \in {0, k} }
    \cup
    { [status |-> 429, has_data |-> FALSE, data |-> <<>>, users |-> <<>>,
       has_meta |-> m, next_token |-> t] :
         m \in BOOLEAN, t \in {0, k} }

\* a tweet with the fields of a user
TwRecord(tweet, username) ==
    [tweet_id |-> tweet.tweet_id, has_entities |-> tweet.has_entities,
     author_id |-> tweet.author_id, username |-> username]

\* the users whose id is the tweet's author_id, in the order of the list
TwAuthors(tweet, users) == SelectSeq(users, LAMBDA u : u.id = tweet.author_id)

\* faulty variant: a tweet without an included author is dropped
TwInnerJoinRows(tweet, users) ==
    LET m == TwAuthors(tweet, users)
    IN  [j \in 1..Len(m) |-> TwRecord(tweet, m[j].username)]

\* the rows a left join gives for one row of the left frame: one per match,
\* or one with null fields
TwJoinRows(tweet, users) ==
    LET m == TwAuthors(tweet, users)
    IN  IF m = <<>>
        THEN <<TwRecord(tweet, NullUser)>>
        ELSE [j \in 1..Len(m) |-> TwRecord(tweet, m[j].username)]

RECURSIVE TwLeftJoin(_, _)
\* pd.merge(left=df, right=df_user, left_on='author_id', right_on='id',
\* how='left'): the rows of the left frame in order, each with its matches
\* (computed by halves).
TwLeftJoin(tweets, users) ==
    IF tweets = <<>> THEN <<>>
    ELSE IF Len(tweets) = 1 THEN TwJoinRows(tweets[1], users)
    ELSE LET h == Len(tweets) \div 2
         IN  TwLeftJoin(SubSeq(tweets, 1, h), users)
             \o TwLeftJoin(SubSeq(tweets, h + 1, Len(tweets)), users)

\* _df_from_response: res.json()['data'] and df['entities'] are plain lookups.
TwDfFromResponse(res) ==
    IF ~res.has_data
    THEN [raised |-> TRUE, exc |-> Exc("KeyError", "data"), rows |-> <<>>]
    ELSE IF \A i \in 1..Len(res.data) : ~res.data[i].has_entities
    THEN [raised |-> TRUE, exc |-> Exc("KeyError", "entities"), rows |-> <<>>]
    ELSE [raised |-> FALSE, exc |-> NoExc, rows |-> TwLeftJoin(res.data, res.users)]

\* faulty variant: no retry loop
TwShouldRetryNever(res, n) == FALSE

\* _get_page_results: the condition of the retry loop.
TwShouldRetry(res, n) == res.status # 200 /\ n < max_request_tries

\* _get_page_results: what the call returns (or raises) for the last response.
TwPageResult(res) ==
    LET page == IF res.status = 200
                THEN TwDfFromResponse(res)
                ELSE [raised |-> FALSE, exc |-> NoExc, rows |-> <<>>]
    IN  IF page.raised THEN page
        ELSE IF ~res.has_meta
        THEN [raised |-> TRUE, exc |-> Exc("KeyError", "meta"), rows |-> <<>>]
        ELSE page

\* faulty variant: the loop goes on whatever the row count
TwMorePagesAnyCount(n_rows, meta, cap) == meta.has_next_token

\* the hashtags and the start time write_results is called with
Hashtags == <<<<"#", "stocks">>, <<"#", "investing">>>>

StartTime == "yesterday"

\* start_time, end_time left at their default None
NoTime == "None"

\* next_token left at its default None (a token is a positive number)
NoToken == 0

\* self.url before any query is made
NoUrl == [query |-> <<>>, max_results |-> 0, start_time |-> NoTime,
          end_time |-> NoTime, next_token |-> NoToken]

\* faulty variant: the next_token is not added to the query
TwMakeQueryNoToken(hashtags, start_time, end_time, per_page, next_token) ==
    [query |-> [k \in 1..Len(hashtags) |->
                  IF hashtags[k][1] = "#" THEN <<"%23", hashtags[k][2]>>
                                          ELSE hashtags[k]],
     max_results |-> per_page,
     start_time |-> start_time,
     end_time |-> end_time,
     next_token |-> NoToken]

\* _make_query: the '#' of each hashtag is replaced by %23 and the hashtags
\* are joined; start_time, end_time and next_token are added when given.
TwMakeQuery(hashtags, start_time, end_time, per_page, next_token) ==
    [query |-> [k \in 1..Len(hashtags) |->
                  IF hashtags[k][1] = "#" THEN <<"%23", hashtags[k][2]>>
                                          ELSE hashtags[k]],
     max_results |-> per_page,
     start_time |-> start_time,
     end_time |-> end_time,
     next_token |-> next_token]

\* write_results: the condition of the pagination loop.
TwMorePages(n_rows, meta, cap) == n_rows < cap /\ meta.has_next_token

\* write_results, up to the first _make_query (no next_token).
TwStart ==
    /\ pc = "tw_start"
    /\ df_results' = <<>>
    /\ url' = TwMakeQuery(Hashtags, StartTime, NoTime, max_results_per_page, NoToken)
    /\ pc' = "tw_get_page"
    /\ UNCHANGED <<epVarsButPc, max_results, response, n_request_tries,
                   meta_dict, tw_pages, tw_sleep, tweets_table, notTw>>

\* _get_page_results: the first request of a page.
TwRequest ==
    /\ pc = "tw_get_page"
    /\ Len(tw_pages) < MaxFetches
    /\ \E res \in TwResponses(Len(tw_pages) + 1) : response' = res
    /\ n_request_tries' = 1
    /\ pc' = "tw_check"
    /\ UNCHANGED <<epVarsButPc, max_results, url, df_results,
                   meta_dict, tw_pages, tw_sleep, tweets_table, notTw>>

\* _get_page_results: one turn of the retry loop (time.sleep(5), then the
\* request again).
TwRetry ==
    /\ pc = "tw_check"
    /\ TwShouldRetry(response, n_request_tries)
    /\ \E res \in TwResponses(Len(tw_pages) + 1) : response' = res
    /\ n_request_tries' = n_request_tries + 1
    /\ UNCHANGED <<epVars, max_results, url, df_results,
                   meta_dict, tw_pages, tw_sleep, tweets_table, notTw>>

\* _get_page_results returns; write_results appends the page, sleeps (inside the
\* loop), tests the loop condition and, to go on, makes the next query.
TwPage ==
    /\ pc = "tw_check"
    /\ ~TwShouldRetry(response, n_request_tries)
    /\ LET r == TwPageResult(response)
           meta == [has_next_token |-> response.next_token # 0,
                    next_token |-> response.next_token]
           rows == Accumulate(df_results, r.rows)
       IN  IF r.raised
           THEN /\ pc' = AfterRaise
                /\ exc' = r.exc
                /\ UNCHANGED <<df_results, meta_dict, tw_pages, tw_sleep, url,
                               response, n_request_tries>>
           ELSE /\ df_results' = rows
                /\ meta_dict' = meta
                /\ tw_pages' = Append(tw_pages, meta.has_next_token)
                /\ tw_sleep' = IF tw_pages = <<>> THEN 0 ELSE LoopSleep
                /\ IF TwMorePages(Len(rows), meta, max_results)
                   THEN /\ pc' = "tw_get_page"
                        /\ url' = TwMakeQuery(Hashtags, StartTime, NoTime,
                                               max_results_per_page, meta.next_token)
                   ELSE pc' = "tw_set_index" /\ UNCHANGED url
                /\ response' = NoResponse
                /\ n_request_tries' = 0
                /\ UNCHANGED exc
    /\ UNCHANGED <<epFrame, jobs, max_results, tweets_table, notTw>>

\* df_results.set_index('tweet_id'): a frame that never received a row has no
\* such column.
TwSetIndex ==
    /\ pc = "tw_set_index"
    /\ IF df_results = <<>>
       THEN pc' = AfterRaise /\ exc' = Exc("KeyError", "tweet_id")
       ELSE /\ pc' = IF WriteToBq(write_bq) THEN "tw_load"
                                 ELSE AfterReturn("write_results")
            /\ UNCHANGED exc
    /\ UNCHANGED <<epFrame, jobs, watchers>>

\* The load job of the run and the test of its terminal state.
TwLoad ==
    /\ pc = "tw_load"
    /\ \E state \in JobStates :
         /\ jobs' = Append(jobs, [kind |-> "load", table |-> "tweets", state |-> state])
         /\ IF LoadFailed(state)
            THEN /\ pc' = AfterRaise
                 /\ exc' = Exc("LoadFailure", state)
                 /\ UNCHANGED tweets_table
            ELSE /\ pc' = AfterReturn("write_results")
                 /\ tweets_table' = BqAppend(tweets_table, df_results)
                 /\ UNCHANGED exc
    /\ UNCHANGED <<epFrame, max_results, url, response, n_request_tries,
                   df_results, meta_dict, tw_pages, tw_sleep, notTw>>


----------------------------------------------------------------------------
\* RedditWatcher

\* params = {'limit': 100}, and the divisor of int(how_many_posts / 100)
RedditLimit == 100

Post(id, t) == [id |-> id, created_utc |-> t, kind |-> "t3"]

\* A full listing page: RedditLimit posts, newest first, distinct from page
\* to page.
RdFullPage(k) ==
    [j \in 1..RedditLimit |-> Post(RedditLimit * k + j, RedditLimit * (10 - k) - j)]

\* A full page whose two oldest posts were created in the same second.
RdTiedPage(k) ==
    [j \in 1..RedditLimit |->
        Post(RedditLimit * k + j, RedditLimit * (10 - k) - Min(j, RedditLimit - 1))]

\* The children a listing may answer the k-th request of a run with.
RdChildren(k) ==
    { <<>>,
      <<Post(1, 7), Post(2, 5)>>,
      RdFullPage(k),
      RdTiedPage(k) }

\* Every response to the k-th listing request: 200 with children, or an error
\* whose body has no 'data'.
RdResponses(k) ==
    { [status |-> 200, has_data |-> TRUE, children |-> c] : c \in RdChildren(k) }
    \cup { [status |-> 500, has_data |-> FALSE, children |-> <<>>] }

\* faulty variant: a body without 'data' converts to an empty frame
RdDfFromResponseLenient(res) == [raised |-> FALSE, exc |-> NoExc, rows |-> res.children]

\* _df_from_response: one row per child of res.json()['data']['children'].
RdDfFromResponse(res) ==
    IF ~res.has_data
    THEN [raised |-> TRUE, exc |-> Exc("KeyError", "data"), rows |-> <<>>]
    ELSE [raised |-> FALSE, exc |-> NoExc, rows |-> res.children]

\* range(int(how_many_posts / 100))
RdIterations(n) == n \div RedditLimit

\* The rows of the smallest created_utc of a page.
RdOldest(page) ==
    {a \in 1..Len(page) :
        \A b \in 1..Len(page) : page[a].created_utc <= page[b].created_utc}

\* faulty variant: the first row of the page, the newest one
RdLastPostsNewest(page) == {page[1]}

\* res_result.sort_values(by='created_utc', ascending=True).iloc[0]: a row of
\* the smallest created_utc.  The sort is sort_values' default, quicksort,
\* which is not stable: which of several rows of one created_utc comes first
\* is not determined.
RdLastPosts(page) == {page[a] : a \in RdOldest(page)}

\* last_post['kind'] + '_' + last_post['id']
Fullname(post) == <<post.kind, post.id>>

NoAfter == <<>>

\* faulty variant: the cursor is taken from the page fetched last, whatever i
RdParamsLeaky(iter, page) ==
    IF page = <<>>
    THEN {[limit |-> RedditLimit, after |-> NoAfter]}
    ELSE {[limit |-> RedditLimit, after |-> Fullname(last)] : last \in RdLastPosts(page)}

\* params of iteration i: {'limit': 100} when i == 0, else with 'after'.
RdParams(iter, page) ==
    IF iter = 0
    THEN {[limit |-> RedditLimit, after |-> NoAfter]}
    ELSE {[limit |-> RedditLimit, after |-> Fullname(last)] : last \in RdLastPosts(page)}

\* One exchange with a listing endpoint, as recorded in rd_requests.
RdExchange(listing, community, params, res) ==
    [listing |-> listing, community |-> community, limit |-> params.limit,
     after |-> params.after, status |-> res.status,
     n_children |-> Len(res.children)]

\* faulty variant: a failed handshake does not raise
AuthRaisesNever(answer) == FALSE

\* _auth raises unless the answer is a 200 with an access_token.
AuthRaises(answer) == answer # "token"

\* __init__ / _auth: the OAuth handshake.
RdAuth ==
    /\ pc = "rd_auth"
    /\ \E answer \in {"token", "no_token", "non_200"} :
         /\ rd_headers' = (answer = "token")
         /\ IF AuthRaises(answer)
            THEN pc' = AfterRaise /\ exc' = Exc("AuthenticationFailure", answer)
            ELSE pc' = "rd_new_start" /\ UNCHANGED exc
    /\ UNCHANGED <<epFrame, jobs, rdInputs, rdLocals, rd_requests, rdTables, notRd>>

\* get_new_posts up to the loops.
RdNewStart ==
    /\ pc = "rd_new_start"
    /\ posts' = <<>> /\ ci' = 1 /\ rd_i' = 0 /\ res_result' = <<>>
    /\ rd_requests' = <<>>
    /\ pc' = "rd_new_loop"
    /\ UNCHANGED <<epVarsButPc, rd_headers, rdInputs, rdTables, notRd>>

\* Whether iteration i of the inner loop issues a request.
RdNewGoesOn(n, iter, page) ==
    /\ iter < RdIterations(n)
    /\ (iter = 0 \/ Len(page) > 0)

\* One iteration of the inner loop: the request, its conversion, the append.
RdNewRequest ==
    /\ pc = "rd_new_loop"
    /\ ci <= Len(communities)
    /\ RdNewGoesOn(how_many_posts, rd_i, res_result)
    /\ \E params \in RdParams(rd_i, res_result),
          res \in RdResponses(Len(rd_requests) + 1) :
         LET r == RdDfFromResponse(res)
         IN  /\ rd_requests' = Append(rd_requests,
                    RdExchange("new", communities[ci], params, res))
             /\ IF r.raised
                THEN /\ pc' = AfterRaise /\ exc' = r.exc
                     /\ UNCHANGED <<res_result, posts, rd_i>>
                ELSE /\ res_result' = r.rows
                     /\ posts' = Accumulate(posts, r.rows)
                     /\ rd_i' = rd_i + 1
                     /\ UNCHANGED <<pc, exc>>
    /\ UNCHANGED <<epFrame, jobs, rd_headers, rdInputs, ci, rdTables, notRd>>

\* The inner loop ends (range exhausted, or break on an empty page): on to
\* the next community.
RdNewNext ==
    /\ pc = "rd_new_loop"
    /\ ci <= Len(communities)
    /\ ~RdNewGoesOn(how_many_posts, rd_i, res_result)
    /\ ci' = ci + 1 /\ rd_i' = 0
    /\ UNCHANGED <<epVars, rd_headers, rdInputs, res_result, posts, rd_requests,
                   rdTables, notRd>>

\* posts.set_index('id'): a frame that never received a row has no such
\* column.  Then the test of write_df_to_bq.
RdNewIndex ==
    /\ pc = "rd_new_loop"
    /\ ci > Len(communities)
    /\ IF posts = <<>>
       THEN pc' = AfterRaise /\ exc' = Exc("KeyError", "id")
       ELSE /\ pc' = IF WriteToBq(write_bq) THEN "rd_new_load" ELSE AfterReturn("get_new_posts")
            /\ UNCHANGED exc
    /\ UNCHANGED <<epFrame, jobs, rdVars, notRd>>

\* The load job of get_new_posts and the test of its terminal state.
RdNewLoad ==
    /\ pc = "rd_new_load"
    /\ \E state \in JobStates :
         /\ jobs' = Append(jobs, [kind |-> "load", table |-> "new_posts", state |-> state])
         /\ IF LoadFailed(state)
            THEN /\ pc' = AfterRaise
                 /\ exc' = Exc("LoadFailure", state)
                 /\ UNCHANGED new_posts_table
            ELSE /\ pc' = AfterReturn("get_new_posts")
                 /\ new_posts_table' = BqAppend(new_posts_table, posts)
                 /\ UNCHANGED exc
    /\ UNCHANGED <<epFrame, rd_headers, rdInputs, rdLocals, rd_requests,
                   hot_posts_table, notRd>>

\* get_hot_posts: params = {'limit': 100}
RdHotParams == [limit |-> RedditLimit, after |-> NoAfter]

\* get_hot_posts up to the loop.
RdHotStart ==
    /\ pc = "rd_hot_start"
    /\ posts' = <<>> /\ ci' = 1 /\ rd_i' = 0 /\ res_result' = <<>>
    /\ rd_requests' = <<>>
    /\ pc' = "rd_hot_loop"
    /\ UNCHANGED <<epVarsButPc, rd_headers, rdInputs, rdTables, notRd>>

\* get_hot_posts, one community: the request, its conversion, the append.
RdHotRequest ==
    /\ pc = "rd_hot_loop"
    /\ ci <= Len(communities)
    /\ \E res \in RdResponses(Len(rd_requests) + 1) :
         LET r == RdDfFromResponse(res)
         IN  /\ rd_requests' = Append(rd_requests,
                    RdExchange("hot", communities[ci], RdHotParams, res))
             /\ IF r.raised
                THEN /\ pc' = AfterRaise /\ exc' = r.exc
                     /\ UNCHANGED <<res_result, posts, ci>>
                ELSE /\ res_result' = r.rows
                     /\ posts' = Accumulate(posts, r.rows)
                     /\ ci' = ci + 1
                     /\ UNCHANGED <<pc, exc>>
    /\ UNCHANGED <<epFrame, jobs, rd_headers, rdInputs, rd_i, rdTables, notRd>>

\* get_hot_posts: posts.set_index('id'), then the test of write_df_to_bq.
RdHotIndex ==
    /\ pc = "rd_hot_loop"
    /\ ci > Len(communities)
    /\ IF posts = <<>>
       THEN pc' = AfterRaise /\ exc' = Exc("KeyError", "id")
       ELSE /\ pc' = IF WriteToBq(write_bq) THEN "rd_hot_load" ELSE AfterReturn("get_hot_posts")
            /\ UNCHANGED exc
    /\ UNCHANGED <<epFrame, jobs, rdVars, notRd>>

\* The load job of get_hot_posts and the test of its terminal state.
RdHotLoad ==
    /\ pc = "rd_hot_load"
    /\ \E state \in JobStates :
         /\ jobs' = Append(jobs, [kind |-> "load", table |-> "hot_posts", state |-> state])
         /\ IF LoadFailed(state)
            THEN /\ pc' = AfterRaise
                 /\ exc' = Exc("LoadFailure", state)
                 /\ UNCHANGED hot_posts_table
            ELSE /\ pc' = AfterReturn("get_hot_posts")
                 /\ hot_posts_table' = BqAppend(hot_posts_table, posts)
                 /\ UNCHANGED exc
    /\ UNCHANGED <<epFrame, rd_headers, rdInputs, rdLocals, rd_requests,
                   new_posts_table, notRd>>

----------------------------------------------------------------------------
\* YahooFinanceWatcher: close prices

\* "Splitting in lists of 10 elements"
BatchSize == 10

\* date.today(), and the day of the one price row Yahoo returns per ticker
Today == 1

\* the close price Yahoo Finance returns
YahooPrice == 150

\* a close price the main table may hold from an earlier day's load
OldPrice == 140

Row(t, d, p) == [ticker |-> t, day |-> d, close_price |-> p]

\* faulty variant: one more slice than Len(ts) \div BatchSize, always
BatchesOneMore(ts) ==
    [k \in 1..(Len(ts) \div BatchSize + 1) |->
        SubSeq(ts, (k - 1) * BatchSize + 1, Min(k * BatchSize, Len(ts)))]

\* requests_list: consecutive slices of BatchSize tickers
Batches(ts) ==
    [k \in 1..((Len(ts) + BatchSize - 1) \div BatchSize) |->
        SubSeq(ts, (k - 1) * BatchSize + 1, Min(k * BatchSize, Len(ts)))]

RECURSIVE SeqFilter(_, _)
\* the elements of sequence `sq` that are in set `keep`, in order
SeqFilter(sq, keep) ==
    IF sq = <<>> THEN <<>>
    ELSE IF Head(sq) \in keep THEN <<Head(sq)>> \o SeqFilter(Tail(sq), keep)
    ELSE SeqFilter(Tail(sq), keep)

\* The rows of a successful response to the request of batch `request`: one
\* per ticker Yahoo knows, in the order of the response's keys.
YahooRows(request, absent) ==
    LET found == SeqFilter(request, Range(request) \ absent)
    IN  [i \in 1..Len(found) |-> Row(found[i], Today, YahooPrice)]

\* faulty variant: the number of failed attempts is not tested
YfRetryGoesOnUncounted(err, count, max) == err

\* The condition of the retry loop.
YfRetryGoesOn(err, count, max) == err /\ count < max

\* faulty variant: every requested ticker is listed
TickerNotFoundAll(request, frame) == request

\* ticker_not_found: `ticker not in df['ticker'].unique()`
TickerNotFound(request, frame) ==
    SeqFilter(request, Range(request) \ {frame[i].ticker : i \in 1..Len(frame)})

\* df_ticker_not_found, with its day and cause columns
NotFoundRows(request, frame, err) ==
    LET nf == TickerNotFound(request, frame)
    IN  [i \in 1..Len(nf) |->
            [ticker |-> nf[i], day |-> Today,
             cause |-> IF err THEN "yahoo_finance_error" ELSE "not_found"]]

SameKey(a, b) == a.ticker = b.ticker /\ a.day = b.day

Matches(t, S) == {j \in 1..Len(S) : SameKey(t, S[j])}

\* MERGE ... WHEN MATCHED THEN UPDATE: the statement fails when a row of the
\* target matches several rows of the source.
MergeFails(T, S) == \E i \in 1..Len(T) : Cardinality(Matches(T[i], S)) > 1

RECURSIVE Unmatched(_, _)
\* the rows of source S that match no row of target T (WHEN NOT MATCHED)
Unmatched(T, S) ==
    IF S = <<>> THEN <<>>
    ELSE IF Matches(Head(S), T) = {} THEN <<Head(S)>> \o Unmatched(T, Tail(S))
    ELSE Unmatched(T, Tail(S))

\* The target table after MERGE T USING S ON ticker, day.
Merge(T, S) ==
    [i \in 1..Len(T) |->
        IF Matches(T[i], S) = {} THEN T[i]
        ELSE [T[i] EXCEPT !.close_price = S[CHOOSE j \in Matches(T[i], S) : TRUE].close_price]]
    \o Unmatched(T, S)

\* _retrieve_write_close_price up to the loop: the ticker list is queried and
\* split into batches.
YfStart ==
    /\ pc = "yf_start"
    /\ bi' = 1
    /\ pc' = "yf_batch"
    /\ UNCHANGED <<epVarsButPc, yf_run, yfInputs, df, df_renamed, retry_count,
                   yahoo_finance_error, attempts, ri, trending_df, yf_regions, yfTables,
                   merge_job, truncate_job, staged, prev_run, notYf>>

\* The head of `for request in requests_list`, and the set-up of a batch.
YfBatch ==
    /\ pc = "yf_batch"
    /\ IF bi <= Len(Batches(tickers))
       THEN /\ df' = <<>>
            /\ df_renamed' = FALSE
            /\ yahoo_finance_error' = TRUE
            /\ retry_count' = 0
            /\ attempts' = <<>>
            /\ pc' = "yf_retry"
       ELSE /\ pc' = IF WriteToBq(write_bq) THEN "yf_merge" ELSE AfterClosePrice
            /\ UNCHANGED <<df, df_renamed, yahoo_finance_error, retry_count, attempts>>
    /\ UNCHANGED <<epVarsButPc, yf_run, yfInputs, bi, ri, trending_df, yf_regions, yfTables,
                   merge_job, truncate_job, staged, prev_run, notYf>>

\* One turn of the retry loop: the request, and the conversion of its answer.
\* The try block fails before anything is appended ("error"), after the rows
\* of the first k tickers were appended ("partial"), or not at all ("ok").
YfAttempt ==
    /\ pc = "yf_retry"
    /\ YfRetryGoesOn(yahoo_finance_error, retry_count, max_retry)
    /\ LET rows == YahooRows(Batches(tickers)[bi], yf_absent)
       IN  \/ /\ attempts' = Append(attempts, "error")
              /\ retry_count' = retry_count + 1
              /\ UNCHANGED <<df, df_renamed, yahoo_finance_error>>
           \/ \E k \in 1..MaxPartial :
              /\ k <= Len(rows)
              /\ attempts' = Append(attempts, "partial")
              /\ df' = df \o SubSeq(rows, 1, k)
              /\ retry_count' = retry_count + 1
              /\ UNCHANGED <<df_renamed, yahoo_finance_error>>
           \/ /\ attempts' = Append(attempts, "ok")
              /\ df' = df \o rows
              /\ df_renamed' = TRUE
              /\ yahoo_finance_error' = FALSE
              /\ UNCHANGED retry_count
    /\ UNCHANGED <<epVars, yf_run, yfInputs, bi, ri, trending_df, yf_regions, yfTables,
                   merge_job, truncate_job, staged, prev_run, notYf>>

\* After the retry loop: df['ticker'] is looked up to list the tickers not
\* found; the frame has that column only once an attempt renamed 'symbol'.
YfNotFound ==
    /\ pc = "yf_retry"
    /\ ~YfRetryGoesOn(yahoo_finance_error, retry_count, max_retry)
    /\ IF ~df_renamed
       THEN /\ pc' = AfterRaise
            /\ exc' = Exc("KeyError", "ticker")
            /\ UNCHANGED bi
       ELSE /\ IF WriteToBq(write_bq)
               THEN pc' = "yf_load_delta" /\ UNCHANGED bi
               ELSE pc' = "yf_batch" /\ bi' = bi + 1
            /\ UNCHANGED exc
    /\ UNCHANGED <<epFrame, jobs, yf_run, yfInputs, df, df_renamed, retry_count,
                   yahoo_finance_error, attempts, ri, trending_df, yf_regions, yfTables,
                   merge_job, truncate_job, staged, prev_run, notYf>>

\* The batch's rows are appended to the delta table by a load job whose
\* terminal state is tested.
YfLoadDelta ==
    /\ pc = "yf_load_delta"
    /\ \E state \in JobStates :
         /\ jobs' = Append(jobs, [kind |-> "load", table |-> "delta", state |-> state])
         /\ IF LoadFailed(state)
            THEN /\ pc' = AfterRaise
                 /\ exc' = Exc("LoadFailure", state)
                 /\ UNCHANGED delta_table
            ELSE /\ pc' = "yf_load_not_found"
                 /\ delta_table' = BqAppend(delta_table, df)
                 /\ UNCHANGED exc
    /\ UNCHANGED <<epFrame, yf_run, yfInputs, yfLocals, main_table,
                   not_found_table, trending_table, merge_job, truncate_job,
                   staged, prev_run, notYf>>

\* The tickers not found are appended to their table, likewise.
YfLoadNotFound ==
    /\ pc = "yf_load_not_found"
    /\ \E state \in JobStates :
         /\ jobs' = Append(jobs, [kind |-> "load", table |-> "not_found", state |-> state])
         /\ IF LoadFailed(state)
            THEN /\ pc' = AfterRaise
                 /\ exc' = Exc("LoadFailure", state)
                 /\ UNCHANGED <<not_found_table, bi>>
            ELSE /\ pc' = "yf_batch"
                 /\ bi' = bi + 1
                 /\ not_found_table' = BqAppend(not_found_table,
                        NotFoundRows(Batches(tickers)[bi], df, yahoo_finance_error))
                 /\ UNCHANGED exc
    /\ UNCHANGED <<epFrame, yf_run, yfInputs, df, df_renamed, retry_count,
                   yahoo_finance_error, attempts, ri, trending_df, yf_regions, delta_table,
                   main_table, trending_table, merge_job, truncate_job, staged,
                   prev_run, notYf>>

\* client.query(MERGE): the job is started on the server; the call does not
\* wait for it.
YfMerge ==
    /\ pc = "yf_merge"
    /\ jobs' = Append(jobs, [kind |-> "merge", table |-> "main", state |-> "issued"])
    /\ merge_job' = "pending"
    /\ staged' = [delta |-> delta_table, main |-> main_table]
    /\ pc' = "yf_truncate"
    /\ UNCHANGED <<epFrame, exc, yf_run, yfInputs, yfLocals, yfTables,
                   truncate_job, prev_run, notYf>>

\* client.query(TRUNCATE), likewise; _retrieve_write_close_price returns.
YfTruncate ==
    /\ pc = "yf_truncate"
    /\ jobs' = Append(jobs, [kind |-> "truncate", table |-> "delta", state |-> "issued"])
    /\ truncate_job' = "pending"
    /\ pc' = AfterClosePrice
    /\ UNCHANGED <<epFrame, exc, yf_run, yfInputs, yfLocals, yfTables,
                   merge_job, staged, prev_run, notYf>>

\* Server: the MERGE job runs, on the delta table as it is at that moment.
BqMergeRuns ==
    /\ merge_job = "pending"
    /\ IF MergeFails(main_table, delta_table)
       THEN merge_job' = "failed" /\ UNCHANGED main_table
       ELSE merge_job' = "done" /\ main_table' = Merge(main_table, delta_table)
    /\ UNCHANGED <<epVars, yf_run, yfInputs, yfLocals, delta_table,
                   not_found_table, trending_table, truncate_job, staged, prev_run, notYf>>

\* Server: the TRUNCATE job runs.
BqTruncateRuns ==
    /\ truncate_job = "pending"
    /\ truncate_job' = "done"
    /\ delta_table' = <<>>
    /\ UNCHANGED <<epVars, yf_run, yfInputs, yfLocals, main_table,
                   not_found_table, trending_table, merge_job, staged, prev_run, notYf>>

----------------------------------------------------------------------------
\* YahooFinanceWatcher: trending tickers, and the end of write_results

\* trending_regions (configuration)
TrendingRegions == <<"US", "GB">>

\* faulty variant: the trending part runs in every round
TrendingRunsAlways(n) == TRUE

\* `if n_round == 1:` of write_results
TrendingRuns(n) == n = 1

\* write_results after the close prices: `if n_round == 1`.
YfTrending ==
    /\ pc = "yf_trending"
    /\ IF TrendingRuns(n_round)
       THEN pc' = "yf_region" /\ ri' = 1 /\ trending_df' = <<>> /\ yf_regions' = <<>>
       ELSE pc' = AfterReturn("write_results") /\ UNCHANGED <<ri, trending_df, yf_regions>>
    /\ UNCHANGED <<epVarsButPc, yf_run, yfInputs, bi, df, df_renamed, retry_count,
                   yahoo_finance_error, attempts, yfTables, yfServer, notYf>>

\* What the trending endpoint may answer for a region: the request or the
\* decoding fails or a key is missing ("error"), response_dict['finance']
\* ['result'] is empty ("empty"), or its first entry has quotes.
TrendingAnswers ==
    { [kind |-> "error", quotes |-> <<>>], [kind |-> "empty", quotes |-> <<>>] }
    \cup { [kind |-> "result", quotes |-> q] : q \in {<<>>, <<"TSLA", "AAPL">>} }

\* faulty variant: only the first quote of a region is kept
RegionRowsFirstOnly(region, quotes, day) ==
    [i \in 1..Min(1, Len(quotes)) |-> [day |-> day, ticker |-> quotes[i], region |-> region]]

\* faulty variant: the rows are stamped with the day of the invocation's start
RegionRowsStartDay(region, quotes, day) ==
    [i \in 1..Len(quotes) |-> [day |-> Today, ticker |-> quotes[i], region |-> region]]

\* region_df: the quotes, with 'symbol' renamed, and region_df['day'] =
\* date.today() and the region added
RegionRows(region, quotes, day) ==
    [i \in 1..Len(quotes) |-> [day |-> day, ticker |-> quotes[i], region |-> region]]

\* The date changes while _retrieve_trending loops over the regions.
Midnight ==
    /\ pc = "yf_region"
    /\ today < Today + MaxMidnights
    /\ today' = today + 1
    /\ UNCHANGED <<epVars, yf_run, tickers, yf_absent, max_retry, yfLocals,
                   yfTables, yfServer, notYf>>

\* _retrieve_trending, one region: the try block fails (caught and logged),
\* finds no result, or appends the region's quotes.
YfRegion ==
    /\ pc = "yf_region"
    /\ ri <= Len(TrendingRegions)
    /\ \E answer \in TrendingAnswers :
         /\ yf_regions' = Append(yf_regions,
                [region |-> TrendingRegions[ri], answer |-> answer, day |-> today])
         /\ IF answer.kind = "result"
            THEN trending_df' = trending_df \o
                     RegionRows(TrendingRegions[ri], answer.quotes, today)
            ELSE UNCHANGED trending_df
    /\ ri' = ri + 1
    /\ UNCHANGED <<epVars, yf_run, yfInputs, bi, df, df_renamed, retry_count,
                   yahoo_finance_error, attempts, yfTables, yfServer, notYf>>

\* _retrieve_trending returns; write_results tests write_to_bq.
YfTrendingDone ==
    /\ pc = "yf_region"
    /\ ri > Len(TrendingRegions)
    /\ pc' = IF WriteToBq(write_bq) THEN "yf_load_trending" ELSE AfterReturn("write_results")
    /\ UNCHANGED <<epVarsButPc, yfVars, notYf>>

\* The trending rows are appended by a load job whose state is tested.
YfLoadTrending ==
    /\ pc = "yf_load_trending"
    /\ \E state \in JobStates :
         /\ jobs' = Append(jobs, [kind |-> "load", table |-> "trending", state |-> state])
         /\ IF LoadFailed(state)
            THEN /\ pc' = AfterRaise
                 /\ exc' = Exc("LoadFailure", state)
                 /\ UNCHANGED trending_table
            ELSE /\ pc' = AfterReturn("write_results")
                 /\ trending_table' = BqAppend(trending_table, trending_df)
                 /\ UNCHANGED exc
    /\ UNCHANGED <<epFrame, yf_run, yfInputs, yfLocals, delta_table, main_table,
                   not_found_table, yfServer, notYf>>


----------------------------------------------------------------------------
\* Entry points (src/main*.py)

\* The n_round headers a request may carry.
Headers == {"absent", "2", "abc"}

\* int(request_headers.get('n_round', 1)): the value, or a ValueError.
ParseNRound(h) ==
    CASE h = "absent" -> [raised |-> FALSE, value |-> 1]
      [] h = "1"      -> [raised |-> FALSE, value |-> 1]
      [] h = "2"      -> [raised |-> FALSE, value |-> 2]
      [] OTHER        -> [raised |-> TRUE,  value |-> 0]

\* The first statement of each invoked function.
FirstPc(e) ==
    CASE e = "watchman_yahoo_finance" -> "ep_parse"
      [] e = "watchman" -> "rd_auth"
      [] e = "watchman_twitter" -> "ep_secrets"
      [] e = "watchman_reddit" -> "ep_secrets"
      [] e = "TwitterWatcher.write_results" -> "tw_start"
      [] e = "RedditWatcher.get_new_posts" -> "rd_new_start"
      [] e = "RedditWatcher.get_hot_posts" -> "rd_hot_start"
      [] e = "YahooFinanceWatcher.write_results" -> "yf_start"
      [] e = "YahooFinanceWatcher._retrieve_write_close_price" -> "yf_start"

\* The first watcher call of each entry point's body.
BodyPc(e) ==
    CASE e = "watchman_twitter" -> "tw_start"
      [] e = "watchman_reddit" -> "rd_auth"
      [] e = "watchman_yahoo_finance" -> "yf_start"

\* watchman_yahoo_finance: the header is read before any try block.
EpParse ==
    /\ pc = "ep_parse"
    /\ LET r == ParseNRound(header)
       IN  IF r.raised
           THEN /\ host_exc' = Exc("ValueError", header)
                /\ pc' = "host_crash"
                /\ UNCHANGED n_round
           ELSE /\ n_round' = r.value
                /\ pc' = "ep_secrets"
                /\ UNCHANGED host_exc
    /\ UNCHANGED <<entry, exc, ep_log, ep_secret_ok, ep_ret, header, write_bq,
                   jobs, watchers>>

\* The first try block: the secrets are read; a failure is logged and leaves
\* the variables of the secrets unbound.
EpSecrets ==
    /\ pc = "ep_secrets"
    /\ \E ok \in BOOLEAN :
         /\ ep_secret_ok' = ok
         /\ ep_log' = IF ok THEN ep_log ELSE Append(ep_log, "secret")
    /\ pc' = "ep_body"
    /\ UNCHANGED <<entry, exc, host_exc, ep_ret, header, n_round, write_bq,
                   jobs, watchers>>

\* The second try block starts: the watcher is constructed from the secrets.
EpBody ==
    /\ pc = "ep_body"
    /\ IF ep_secret_ok
       THEN pc' = BodyPc(entry) /\ UNCHANGED exc
       ELSE pc' = "ep_except" /\ exc' = Exc("NameError", "secret")
    /\ UNCHANGED <<epFrame, jobs, watchers>>

\* except Exception as error: the error is logged.
EpExcept ==
    /\ pc = "ep_except"
    /\ ep_log' = Append(ep_log, exc.type)
    /\ pc' = "ep_end"
    /\ UNCHANGED <<entry, exc, host_exc, ep_secret_ok, ep_ret, header, n_round,
                   write_bq, jobs, watchers>>

\* A value handed to the host: its Python type and, for a str, its text.
NotReturned == [type |-> "", text |-> ""]

PyNone == [type |-> "NoneType", text |-> ""]

PyStr(text) == [type |-> "str", text |-> text]

\* What the entry point returns: watchman a message from either branch of its
\* try block; the three others reach the end of the function with no return
\* statement.
EpReturnValue(e, error) ==
    IF e = "watchman"
    THEN IF error = NoExc THEN PyStr("Job Finished")
                          ELSE PyStr("Query failed due to $message.")
    ELSE PyNone

\* The function ends and hands its value to the host.
EpEnd ==
    /\ pc = "ep_end"
    /\ ep_ret' = EpReturnValue(entry, exc)
    /\ pc' = "ep_returned"
    /\ UNCHANGED <<entry, exc, host_exc, ep_log, ep_secret_ok, header, n_round,
                   write_bq, jobs, watchers>>

----------------------------------------------------------------------------
\* Successive invocations

YahooEntries == {"watchman_yahoo_finance", "YahooFinanceWatcher.write_results",
                 "YahooFinanceWatcher._retrieve_write_close_price"}

TwitterEntries == {"watchman_twitter", "TwitterWatcher.write_results"}

RedditEntries == {"watchman_reddit", "RedditWatcher.get_new_posts",
                  "RedditWatcher.get_hot_posts"}

NoStaged == [delta |-> <<>>, main |-> <<>>]

NoPrevRun == [pc |-> "", main |-> <<>>, merge_issued |-> FALSE]

\* The close-price pipeline is run again, with the same ticker list and Yahoo
\* data, once the run before it has ended and the query jobs it started have
\* run.
NextRun ==
    /\ entry = "YahooFinanceWatcher._retrieve_write_close_price"
    /\ pc \in {"returned", "raised"}
    /\ merge_job # "pending" /\ truncate_job # "pending"
    /\ yf_run < MaxRuns
    /\ yf_run' = yf_run + 1
    /\ prev_run' = [pc |-> pc, main |-> main_table,
                    merge_issued |-> merge_job # "none"]
    /\ pc' = FirstPc(entry)
    /\ exc' = NoExc /\ host_exc' = NoExc /\ ep_log' = <<>> /\ ep_ret' = NotReturned
    /\ ep_secret_ok' = FALSE
    /\ jobs' = <<>>
    /\ bi' = 0 /\ df' = <<>> /\ df_renamed' = FALSE /\ retry_count' = 0
    /\ yahoo_finance_error' = FALSE /\ attempts' = <<>>
    /\ ri' = 0 /\ trending_df' = <<>> /\ yf_regions' = <<>>
    /\ merge_job' = "none" /\ truncate_job' = "none" /\ staged' = NoStaged
    /\ UNCHANGED <<entry, header, n_round, write_bq, yfInputs, yfTables, notYf>>

----------------------------------------------------------------------------
\* Inputs of an invocation

MaxResultsSet == {100, 150, 250}

Twelve == <<"AAPL", "MSFT", "T03", "T04", "T05", "T06", "T07", "T08", "T09",
            "T10", "T11", "T12">>

Ten == SubSeq(Twelve, 1, 10)

\* the ticker lists the two warehouse queries may produce (distinct tickers)
TickerLists == {<<"AAPL", "MSFT">>, Ten, Twelve}

\* the sets of tickers Yahoo Finance may not know
AbsentSets == {{}, {"MSFT"}}

MaxRetrySet == {0, 1, 2}

CommunityLists == {<<"wallstreetbets">>, <<"wallstreetbets", "stocks">>}

HowManyPostsSet == {50, 100, 200}

\* what the main close-price table may hold before the first run
MainTables == {<<>>, <<Row("AAPL", Today, OldPrice)>>}

InitEp ==
    /\ pc = FirstPc(entry)
    /\ exc = NoExc
    /\ host_exc = NoExc
    /\ ep_log = <<>>
    /\ ep_secret_ok = FALSE
    /\ ep_ret = NotReturned
    /\ header \in (IF entry = "watchman_yahoo_finance" THEN Headers ELSE {"absent"})
    /\ n_round \in (IF entry = "YahooFinanceWatcher.write_results" THEN {1, 2} ELSE {0})
    /\ write_bq \in (IF entry \in EntryPoints THEN {TRUE} ELSE BOOLEAN)
    /\ jobs = <<>>

\* TwitterWatcher at rest, before write_results
IdleTw ==
    /\ url = NoUrl
    /\ response = NoResponse
    /\ n_request_tries = 0
    /\ df_results = <<>>
    /\ meta_dict = NoMeta
    /\ tw_pages = <<>>
    /\ tw_sleep = 0
    /\ tweets_table = <<>>

\* YahooFinanceWatcher at rest, before a run
IdleYf ==
    /\ yf_run = 1
    /\ bi = 0 /\ df = <<>> /\ df_renamed = FALSE /\ retry_count = 0
    /\ yahoo_finance_error = FALSE /\ attempts = <<>>
    /\ ri = 0 /\ trending_df = <<>> /\ yf_regions = <<>>
    /\ delta_table = <<>>
    /\ not_found_table = <<>>
    /\ trending_table = <<>>
    /\ merge_job = "none" /\ truncate_job = "none"
    /\ staged = NoStaged
    /\ prev_run = NoPrevRun

\* RedditWatcher at rest: constructed (the direct calls) or not yet
IdleRd ==
    /\ rd_headers = (entry \in {"RedditWatcher.get_new_posts",
                                "RedditWatcher.get_hot_posts"})
    /\ ci = 0 /\ rd_i = 0 /\ res_result = <<>> /\ posts = <<>>
    /\ rd_requests = <<>>
    /\ new_posts_table = <<>>
    /\ hot_posts_table = <<>>

NoTwInputs == max_results = 0

NoYfInputs ==
    /\ tickers = <<>> /\ yf_absent = {} /\ max_retry = 0 /\ main_table = <<>>
    /\ today = Today

NoRdInputs == communities = <<>> /\ how_many_posts = 0

InitTw ==
    /\ entry \in TwitterEntries
    /\ InitEp
    /\ max_results \in MaxResultsSet
    /\ IdleTw /\ IdleYf /\ IdleRd
    /\ NoYfInputs /\ NoRdInputs

InitRd ==
    /\ entry \in RedditEntries
    /\ InitEp
    /\ communities \in CommunityLists
    /\ how_many_posts \in HowManyPostsSet
    /\ IdleTw /\ IdleYf /\ IdleRd
    /\ NoTwInputs /\ NoYfInputs

InitYf ==
    /\ entry \in YahooEntries
    /\ InitEp
    /\ tickers \in TickerLists
    /\ yf_absent \in AbsentSets
    /\ max_retry \in MaxRetrySet
    /\ main_table \in MainTables
    /\ today = Today
    /\ IdleTw /\ IdleYf /\ IdleRd
    /\ NoTwInputs /\ NoRdInputs

\* watchman: the Reddit watcher, then the Twitter watcher, on the configured
\* communities and limits.
InitWm ==
    /\ entry = "watchman"
    /\ InitEp
    /\ communities = <<"wallstreetbets">>
    /\ how_many_posts = 100
    /\ max_results = 100
    /\ IdleTw /\ IdleYf /\ IdleRd
    /\ NoYfInputs

NextEp == EpSecrets \/ EpBody \/ EpExcept \/ EpEnd

NextTw ==
    \/ NextEp
    \/ TwStart \/ TwRequest \/ TwRetry \/ TwPage \/ TwSetIndex \/ TwLoad

NextYf ==
    \/ EpParse \/ NextEp
    \/ YfStart \/ YfBatch \/ YfAttempt \/ YfNotFound \/ YfLoadDelta
    \/ YfLoadNotFound \/ YfMerge \/ YfTruncate \/ BqMergeRuns \/ BqTruncateRuns
    \/ YfTrending \/ YfRegion \/ Midnight \/ YfTrendingDone \/ YfLoadTrending
    \/ NextRun

NextRd ==
    \/ NextEp
    \/ RdAuth \/ RdNewStart \/ RdNewRequest \/ RdNewNext \/ RdNewIndex \/ RdNewLoad
    \/ RdHotStart \/ RdHotRequest \/ RdHotIndex \/ RdHotLoad

Init == InitTw \/ InitRd \/ InitYf \/ InitWm

Next == NextTw \/ NextRd \/ NextYf

\* An invocation of any entry point or watcher method
Spec == Init /\ [][Next]_vars

\* A run of the Reddit pipeline
SpecRd == InitRd /\ [][NextRd]_vars

\* A run of the Twitter pipeline
SpecTw == InitTw /\ [][NextTw]_vars

\* Runs of the Yahoo-Finance pipeline
SpecYf == InitYf /\ [][NextYf]_vars

----------------------------------------------------------------------------
\* Properties

\* the thread is inside get_new_posts
InGetNewPosts == pc \in {"rd_new_loop", "rd_new_load"}

\* the thread is inside TwitterWatcher.write_results
InTwWriteResults == pc \in {"tw_get_page", "tw_check", "tw_set_index", "tw_load"}

\* C1: at every point of a paginated fetch the accumulated Result Set holds
\* at most the configured cap of records (max_results for write_results,
\* how_many_posts for get_new_posts).
C1_ResultWithinCap ==
    /\ InTwWriteResults => Len(df_results) <= max_results
    /\ InGetNewPosts => Len(posts) <= how_many_posts

\* C2: when a page fetch of write_results has returned, the run goes on to
\* fetch a further page if and only if the accumulated row count is below
\* max_results and the page's metadata holds a next_token; with
\* max_results = 250 and a next_token on pages 1 and 2 only, the run that has
\* left the loop has fetched exactly 3 pages.
C2_NextPageIff ==
    /\ [][ (pc = "tw_check" /\ pc' \in {"tw_get_page", "tw_set_index"})
            => ( (pc' = "tw_get_page")
                 <=> (Len(df_results') < max_results /\ meta_dict'.has_next_token) )
       ]_vars
    /\ [][ (pc = "tw_check" /\ pc' = "tw_get_page")
            => url'.next_token = meta_dict'.next_token ]_vars
    /\ []( ( /\ pc = "tw_set_index"
             /\ max_results = 250
             /\ \A k \in 1..Len(tw_pages) : tw_pages[k] <=> (k <= 2) )
           => Len(tw_pages) = 3 )

\* C2 witness: max_results = 250, full pages, next_token on pages 1 and 2
\* only: the loop is left after the third page, with 300 rows.
C2_Witness ==
    /\ pc = "tw_set_index"
    /\ max_results = 250
    /\ tw_pages = <<TRUE, TRUE, FALSE>>
    /\ Len(df_results) = 300

\* a Reddit call ended by the KeyError of set_index('id') although at least
\* one listing page was fetched (every page fetched was empty)
RdEmptyRaised ==
    /\ exc = Exc("KeyError", "id")
    /\ rd_requests # <<>>

\* write_results ended by a KeyError on a first page that is a 200 without
\* any tweet
TwEmptyRaised ==
    /\ exc.type = "KeyError"
    /\ tw_pages = <<>>
    /\ response.status = 200
    /\ response.data = <<>>

\* C3: an empty page ends the pagination without raising: when every first
\* page of get_new_posts / get_hot_posts is empty, or the first Twitter page
\* holds no tweet, the call does not end by an exception.
C3_EmptyPageNoRaise == ~RdEmptyRaised /\ ~TwEmptyRaised

\* C4: the three phases of the merge mode are ordered: the TRUNCATE of the
\* delta table takes effect only after the MERGE has run, and the MERGE is
\* started only after every batch's load job is DONE.
C4_PhasesOrdered ==
    /\ truncate_job = "done" => merge_job \in {"done", "failed"}
    /\ merge_job # "none" =>
         \A k \in 1..Len(jobs) : jobs[k].kind = "load" => jobs[k].state = "DONE"

\* a close-price run with the write flag on has returned and the query jobs
\* it started have run
ClosePriceRunOver ==
    /\ entry \in YahooEntries
    /\ write_bq
    /\ pc \in {"returned", "ep_returned"}
    /\ exc = NoExc
    /\ merge_job \in {"done", "failed"}
    /\ truncate_job = "done"

KeysOf(T) == {<<T[k].ticker, T[k].day>> : k \in 1..Len(T)}

\* the rows of table T with key `key`
RowsAt(T, key) == {k \in 1..Len(T) : <<T[k].ticker, T[k].day>> = key}

\* C5: after a successful close-price run the main table holds, for every
\* key staged in the delta table, the delta's close_price; the rows of other
\* keys are as they were; and the delta table is empty.
C5_MergeResult ==
    ClosePriceRunOver =>
        /\ \A k \in 1..Len(staged.delta) :
             LET key == <<staged.delta[k].ticker, staged.delta[k].day>>
             IN  /\ RowsAt(main_table, key) # {}
                 /\ \A m \in RowsAt(main_table, key) :
                      main_table[m].close_price = staged.delta[k].close_price
        /\ \A m \in 1..Len(staged.main) :
             <<staged.main[m].ticker, staged.main[m].day>> \notin KeysOf(staged.delta)
                => /\ m <= Len(main_table)
                   /\ main_table[m] = staged.main[m]
        /\ delta_table = <<>>

\* C6: a second close-price run with the same tickers and the same Yahoo
\* data leaves the main table as the first run left it, with no (ticker,
\* day) key twice.
C6_Idempotent ==
    ( /\ ClosePriceRunOver
      /\ yf_run = 2
      /\ prev_run.pc = "returned"
      /\ prev_run.merge_issued )
    => /\ main_table = prev_run.main
       /\ \A key \in KeysOf(main_table) : Cardinality(RowsAt(main_table, key)) = 1

\* C7: when the retry loop of a batch ends with every attempt failed
\* (max_retry = 0 included), the pipeline does not raise.
C7_GiveUpNoRaise ==
    (yahoo_finance_error /\ pc # "yf_retry") => exc = NoExc

FailedLoads == {k \in 1..Len(jobs) : jobs[k].kind = "load" /\ jobs[k].state # "DONE"}

\* C8: once a load job of the run has ended in a state other than DONE, the
\* call has raised an error carrying that state, and the failed job is the
\* last warehouse job the run issued (no retry, no later load, merge or
\* truncate).
C8_LoadFailureAborts ==
    \A k \in FailedLoads :
        /\ k = Len(jobs)
        /\ exc = Exc("LoadFailure", jobs[k].state)
        /\ pc \in {"raised", "ep_except", "ep_end", "ep_returned"}
        /\ (jobs[k].table \in {"delta", "not_found"} =>
                merge_job = "none" /\ truncate_job = "none")

\* C8 witness: the load of the first of two close-price batches failed, and
\* the run is over.
C8_Witness ==
    /\ FailedLoads # {}
    /\ jobs[Len(jobs)].table = "delta"
    /\ jobs[Len(jobs)].state = "FAILED"
    /\ bi = 1
    /\ Len(Batches(tickers)) = 2
    /\ pc \in {"raised", "ep_returned"}

\* C9: no exception leaves an entry point.
C9_NoExceptionReachesHost == host_exc = NoExc /\ pc # "host_crash"

\* C10 (amended): a non-200 response to a page request is retried, not
\* raised: the request is repeated until a 200 comes or max_request_tries
\* requests were made for the page; only the last of them, when it is still
\* not a 200, ends the fetch, with an empty page and the response's meta, or
\* with a KeyError when the body holds no meta.
C10_RetriesThenGivesUp ==
    /\ [][ (pc = "tw_check" /\ response.status # 200
               /\ n_request_tries < max_request_tries)
            => /\ pc' = "tw_check"
               /\ n_request_tries' = n_request_tries + 1
               /\ exc' = NoExc ]_vars
    /\ [][ (pc = "tw_check" /\ response.status # 200 /\ pc' # "tw_check")
            => /\ n_request_tries = max_request_tries
               /\ df_results' = df_results
               /\ IF response.has_meta
                  THEN pc' \in {"tw_get_page", "tw_set_index"} /\ exc' = NoExc
                  ELSE exc' = Exc("KeyError", "meta") ]_vars
    /\ [](n_request_tries <= max_request_tries)

\* C10 witness: the third request of a page was answered by a non-200.
C10_Witness ==
    /\ pc = "tw_check"
    /\ n_request_tries = max_request_tries
    /\ response.status # 200

\* C10 as stated: the first non-200 response raises, and no request follows.
C10_FailFast ==
    [][ (pc = "tw_check" /\ response.status # 200)
         => (pc' \in {"raised", "ep_except"} /\ exc'.type # "none") ]_vars

\* the positions of the thread once an exception left a watcher method
Aborted == {"raised", "ep_except", "ep_end", "ep_returned"}

\* the listing exchanges answered by a non-200 status
RdFailedExchanges == {k \in 1..Len(rd_requests) : rd_requests[k].status # 200}

\* C11 (amended): a non-200 response to a listing request is not retried:
\* it is converted at once, the KeyError of res.json()['data'] leaves the
\* method, and the failed request is the last one the call issues.
C11_NoRetryRaises ==
    \A k \in RdFailedExchanges :
        /\ k = Len(rd_requests)
        /\ exc = Exc("KeyError", "data")
        /\ pc \in Aborted

\* C11 witness: the second listing request of a call got a non-200.
C11_Witness ==
    /\ Len(rd_requests) = 2
    /\ rd_requests[1].status = 200
    /\ rd_requests[2].status # 200
    /\ pc \in Aborted

\* C11 as stated: after a non-200 response the call goes on without raising.
C11_RetryNoRaise ==
    \A k \in RdFailedExchanges : exc = NoExc

\* index of a community in the list (the names of a list are distinct)
CommunityIndex(c) == CHOOSE n \in 1..Len(communities) : communities[n] = c

\* the listing exchanges of the call about the community of index n
RdExchangesOf(n) ==
    {k \in 1..Len(rd_requests) : rd_requests[k].community = communities[n]}

\* C12 (amended): the failure of one community ends the whole call: no
\* community after it in the list is requested, the exception leaves the
\* method, and the call loads nothing into its table.
C12_FailureEndsCall ==
    \A k \in RdFailedExchanges :
        LET n == CommunityIndex(rd_requests[k].community)
            table == IF rd_requests[k].listing = "new" THEN "new_posts" ELSE "hot_posts"
        IN  /\ \A m \in (n + 1)..Len(communities) : RdExchangesOf(m) = {}
            /\ pc \in Aborted /\ exc # NoExc
            /\ \A j \in 1..Len(jobs) : jobs[j].table # table

\* C12 witness: the first of two communities failed and the call is over.
C12_Witness ==
    /\ Len(communities) = 2
    /\ 1 \in RdFailedExchanges
    /\ pc \in Aborted

\* C12 as stated: after the failed fetch of a community the loop over the
\* communities is still running.
C12_SiblingsContinue ==
    [][ (Len(rd_requests') = Len(rd_requests) + 1
            /\ rd_requests'[Len(rd_requests')].status # 200)
         => pc' = pc ]_vars

\* _retrieve_trending is running, or has returned to write_results
TrendingStarted == pc \in {"yf_region", "yf_load_trending"}

RECURSIVE TrendingOf(_)
\* the rows of the regions answered so far that had a result, in list order
TrendingOf(k) ==
    IF k = 0 THEN <<>>
    ELSE TrendingOf(k - 1) \o
         ( IF yf_regions[k].answer.kind = "result"
           THEN [i \in 1..Len(yf_regions[k].answer.quotes) |->
                    [day |-> yf_regions[k].day, ticker |-> yf_regions[k].answer.quotes[i],
                     region |-> yf_regions[k].region]]
           ELSE <<>> )

\* C13: in _retrieve_trending an error on a region is caught: the regions
\* are requested once each, in list order, whatever the earlier answers, no
\* exception is raised, and the frame holds exactly the rows of the regions
\* that answered with a result.
C13_RegionsIsolated ==
    TrendingStarted =>
        /\ ri = Len(yf_regions) + 1
        /\ \A k \in 1..Len(yf_regions) : yf_regions[k].region = TrendingRegions[k]
        /\ pc = "yf_region" => exc = NoExc
        /\ pc = "yf_load_trending" => Len(yf_regions) = Len(TrendingRegions)
        /\ trending_df = TrendingOf(Len(yf_regions))

\* C13 witness: the first region failed, the second one gave two quotes, and
\* _retrieve_trending has returned.
C13_Witness ==
    /\ pc = "yf_load_trending"
    /\ yf_regions[1].answer.kind = "error"
    /\ Len(yf_regions[2].answer.quotes) = 2
    /\ Len(trending_df) = 2

\* C14: when the OAuth handshake is answered by a non-200, or by a 200
\* without access_token, the construction of RedditWatcher raises and the
\* run issues no listing request: every listing request is made by a
\* watcher that holds the bearer token.
C14_AuthFailureNoListing ==
    /\ exc.type = "AuthenticationFailure" =>
            /\ pc \in Aborted
            /\ ~rd_headers
            /\ rd_requests = <<>>
            /\ jobs = <<>>
    /\ rd_requests # <<>> => rd_headers

\* C14 witness: the handshake got a 200 without access_token, and the entry
\* point has logged the exception.
C14_Witness ==
    /\ exc = Exc("AuthenticationFailure", "no_token")
    /\ entry = "watchman_reddit"
    /\ ep_log # <<>>

\* ceil(n / 100)
CeilPages(n) == (n + RedditLimit - 1) \div RedditLimit

\* C15: get_new_posts issues at most ceil(how_many_posts/100) listing
\* requests for a community, and exactly that many when none of the
\* community's pages is empty (stated of the communities whose loop is over).
C15_RequestsPerCommunity ==
    InGetNewPosts =>
        \A n \in 1..Len(communities) :
            n < ci =>
                /\ Cardinality(RdExchangesOf(n)) <= CeilPages(how_many_posts)
                /\ (\A k \in RdExchangesOf(n) : rd_requests[k].n_children > 0)
                      => Cardinality(RdExchangesOf(n)) = CeilPages(how_many_posts)

\* C16: in get_new_posts the request that follows an empty page is for the
\* next community of the list, and the first request of every community
\* carries limit=100 and no 'after' cursor.
C16_EmptyPageNextCommunity ==
    \A k \in 1..Len(rd_requests) :
        rd_requests[k].listing = "new" =>
            /\ (k = 1 \/ rd_requests[k - 1].community # rd_requests[k].community)
                  => rd_requests[k].limit = RedditLimit /\ rd_requests[k].after = NoAfter
            /\ (k > 1 /\ rd_requests[k - 1].status = 200
                       /\ rd_requests[k - 1].n_children = 0)
                  => CommunityIndex(rd_requests[k].community)
                         = CommunityIndex(rd_requests[k - 1].community) + 1

\* C16 witness: with two iterations allowed, the first community's first
\* page was empty and the second request went to the second community.
C16_Witness ==
    /\ how_many_posts = 200
    /\ Len(rd_requests) >= 2
    /\ rd_requests[1].listing = "new"
    /\ rd_requests[1].status = 200 /\ rd_requests[1].n_children = 0
    /\ rd_requests[2].community = communities[2]

\* a request of get_new_posts is issued at an iteration i > 0
RdCursorStep ==
    /\ pc = "rd_new_loop"
    /\ rd_i > 0
    /\ Len(rd_requests') = Len(rd_requests) + 1

\* C17 (amended): a request i > 0 of a community carries 'after' = kind_id
\* of a record of the smallest created_utc of the community's preceding
\* page; when several records share that timestamp it may be any of them.
C17_AfterIsAnOldest ==
    [][ RdCursorStep =>
          LET req == rd_requests'[Len(rd_requests')]
          IN  /\ req.community = rd_requests[Len(rd_requests)].community
              /\ \E a \in 1..Len(res_result) :
                    /\ req.after = <<res_result[a].kind, res_result[a].id>>
                    /\ \A b \in 1..Len(res_result) :
                          res_result[a].created_utc <= res_result[b].created_utc ]_vars

\* C17 witness: the second request of a community follows a full page whose
\* two oldest posts share their timestamp, and names the later of the two
\* in response order.
C17_Witness ==
    /\ Len(rd_requests) >= 2
    /\ rd_requests[1].listing = "new"
    /\ rd_requests[2].community = rd_requests[1].community
    /\ rd_requests[2].after = <<"t3", 2 * RedditLimit>>

\* C17 as stated: among the records of the smallest created_utc the cursor
\* names the first in response order.
C17_AfterIsFirstOldest ==
    [][ RdCursorStep =>
          \E a \in 1..Len(res_result) :
              /\ rd_requests'[Len(rd_requests')].after
                     = <<res_result[a].kind, res_result[a].id>>
              /\ \A b \in 1..Len(res_result) :
                    res_result[a].created_utc <= res_result[b].created_utc
              /\ \A b \in 1..(a - 1) :
                    res_result[b].created_utc # res_result[a].created_utc ]_vars

RECURSIVE Flatten(_)
\* the concatenation of a sequence of sequences
Flatten(ss) == IF ss = <<>> THEN <<>> ELSE Head(ss) \o Flatten(Tail(ss))

\* the batch is past its retry loop
BatchAttempted == pc \in {"yf_load_delta", "yf_load_not_found"}

\* C18: the ticker list is split into consecutive batches of 10 in list
\* order: the batches put end to end are the list, every batch but the last
\* has 10 tickers, the last has 1 to 10; a successful attempt is the only
\* request of its batch that returns rows for it, and no request follows it.
C18_BatchesOfTen ==
    LET B == Batches(tickers)
    IN  /\ Flatten(B) = tickers
        /\ \A k \in 1..(Len(B) - 1) : Len(B[k]) = BatchSize
        /\ Len(B) > 0 => Len(B[Len(B)]) \in 1..BatchSize
        /\ \A k \in 1..Len(attempts) : attempts[k] = "ok" => k = Len(attempts)
        /\ BatchAttempted =>
              {df[i].ticker : i \in 1..Len(df)} \subseteq Range(B[bi])

\* C18 witness: 12 tickers, and the second batch, of 2 tickers, got its
\* rows by one request.
C18_Witness ==
    /\ tickers = Twelve
    /\ pc = "yf_load_delta"
    /\ bi = 2
    /\ Len(Batches(tickers)[2]) = 2
    /\ attempts = <<"ok">>

\* the rows of the not-found table about ticker t
NotFoundOf(t) == {k \in 1..Len(not_found_table) : not_found_table[k].ticker = t}

\* index of the batch of a ticker (the tickers of a list are distinct)
BatchOf(t) == CHOOSE k \in 1..Len(Batches(tickers)) : t \in Range(Batches(tickers)[k])

TwNoEntitiesPage ==
    /\ response.status = 200
    /\ response.has_data
    /\ Len(response.data) > 0
    /\ \A i \in 1..Len(response.data) : ~response.data[i].has_entities

\* C20: normalising a Twitter page never raises for a missing entity
\* category, a page in which no tweet has an entities object included: its
\* tweets become records (with empty lists), not an exception.
C20_MissingEntitiesNoRaise ==
    TwNoEntitiesPage => exc.type # "KeyError"

\* a page answered by a 200 is converted and appended by this step
TwPageAppended ==
    /\ pc = "tw_check"
    /\ response.status = 200
    /\ pc' \in {"tw_get_page", "tw_set_index"}

\* C21: the Twitter normaliser is a left join of the tweets to the included
\* users on author_id: one record per tweet of the page, in page order, with
\* the user's fields when the author is included and null ones otherwise.
C21_LeftJoinOnAuthor ==
    [][ TwPageAppended =>
          /\ Len(df_results') = Len(df_results) + Len(response.data)
          /\ \A i \in 1..Len(response.data) :
                LET rec == df_results'[Len(df_results) + i]
                    t == response.data[i]
                IN  /\ rec.tweet_id = t.tweet_id
                    /\ \A u \in Range(response.users) :
                          u.id = t.author_id => rec.username = u.username
                    /\ (\A u \in Range(response.users) : u.id # t.author_id)
                          => rec.username = NullUser ]_vars

\* C21 witness: a full page was appended; the author of its third tweet is
\* not included, the author of its first one is.
C21_Witness ==
    /\ Len(df_results) >= max_results_per_page
    /\ df_results[1].username = <<"user", df_results[1].author_id>>
    /\ \E i \in 1..Len(df_results) :
          df_results[i].author_id = 0 /\ df_results[i].username = NullUser

\* a listing page answered by a 200 is converted and appended by this step
RdPageAppended ==
    /\ Len(rd_requests') = Len(rd_requests) + 1
    /\ rd_requests'[Len(rd_requests')].status = 200

\* C22 (amended): the accumulator only concatenates: every record of every
\* page converted is appended to the result, in fetch order, whether or not
\* the result already holds a record of the same key.
C22_AccumulatorConcatenates ==
    /\ [][ RdPageAppended => posts' = posts \o res_result' ]_vars
    /\ [][ TwPageAppended =>
              /\ SubSeq(df_results', 1, Len(df_results)) = df_results
              /\ Len(df_results') = Len(df_results) + Len(response.data)
              /\ \A i \in 1..Len(response.data) :
                    df_results'[Len(df_results) + i].tweet_id = response.data[i].tweet_id ]_vars

\* C22 witness: the listing returned the same two posts on two pages, and
\* get_new_posts is about to load a result that holds each of them twice.
C22_Witness ==
    /\ pc = "rd_new_load"
    /\ Len(posts) = 4
    /\ posts[1].id = posts[3].id
    /\ posts[2].id = posts[4].id

\* C22 as stated: no two records of the result share their key.
C22_UniqueOnKey ==
    /\ \A a, b \in 1..Len(posts) : posts[a].id = posts[b].id => a = b
    /\ \A a, b \in 1..Len(df_results) :
          df_results[a].tweet_id = df_results[b].tweet_id => a = b

\* the records the frame holds for the k-th region requested, without their
\* region field
DayTicker(k) ==
    LET rows == SelectSeq(trending_df, LAMBDA rec : rec.region = yf_regions[k].region)
    IN  [i \in 1..Len(rows) |-> <<rows[i].day, rows[i].ticker>>]

C24_SleepBetweenPages ==
    ( pc = "tw_get_page" /\ Len(tw_pages) >= 1 ) => tw_sleep = LoopSleep

\* C25: every invocation of an entry point that returns hands the host a
\* plain-text response: the completion message when the pipeline body
\* succeeded, an error message when it failed (watchman, watchman_reddit,
\* watchman_twitter and watchman_yahoo_finance alike).
C25_PlainTextResponse ==
    pc = "ep_returned" =>
        /\ ep_ret.type = "str"
        /\ ep_ret.text # ""
        /\ (ep_ret.text = "Job Finished") <=> (exc = NoExc)

\* the query of the first request of write_results
TwFirstUrl ==
    [query |-> <<<<"%23", "stocks">>, <<"%23", "investing">>>>,
     max_results |-> max_results_per_page,
     start_time |-> StartTime,
     end_time |-> NoTime,
     next_token |-> NoToken]

\* C26: the first page request of write_results carries no next_token; the
\* request of every later page k+1 carries the next_token of the metadata of
\* page k (the server's token of page k is k, so never the token of an older
\* page), with the hashtags, start_time, end_time and page size of the first
\* request; a retried request carries the same query.
C26_TokenOfPrecedingPage ==
    pc \in {"tw_get_page", "tw_check"} =>
        /\ url = [TwFirstUrl EXCEPT !.next_token = Len(tw_pages)]
        /\ (tw_pages = <<>>) => url.next_token = NoToken
        /\ (tw_pages # <<>>) => /\ meta_dict.has_next_token
                                /\ url.next_token = meta_dict.next_token

\* C26 witness: the request of page 3 is out, carrying the token of page 2,
\* after a retry.
C26_Witness ==
    /\ pc = "tw_check"
    /\ Len(tw_pages) = 2
    /\ n_request_tries = 2
    /\ url.next_token = 2

\* C27: for every close-price batch the retry loop issues at most max_retry
\* requests, none after the first attempt that succeeds; every turn of the
\* loop either ends it or uses up one of the max_retry failures left, so the
\* loop terminates; and the batch is left with yahoo_finance_error set only
\* after exactly max_retry attempts, all failed.
C27_RetryLoopBounded ==
    /\ []( /\ Len(attempts) <= max_retry
           /\ retry_count <= max_retry
           /\ retry_count = Cardinality({k \in 1..Len(attempts) : attempts[k] # "ok"})
           /\ \A k \in 1..Len(attempts) : attempts[k] = "ok" => k = Len(attempts) )
    /\ [][ (pc = "yf_retry" /\ pc' = "yf_retry")
            => \/ ~yahoo_finance_error'
               \/ max_retry - retry_count' < max_retry - retry_count ]_vars
    /\ []( (yahoo_finance_error /\ pc # "yf_retry")
            => /\ Len(attempts) = max_retry
               /\ \A k \in 1..Len(attempts) : attempts[k] # "ok" )

\* C27 witness: with max_retry = 2 the batch was given up after two failed
\* attempts, the second one part-way.
C27_Witness ==
    /\ max_retry = 2
    /\ attempts = <<"error", "partial">>
    /\ yahoo_finance_error
    /\ pc # "yf_retry"

\* the run is in the trending part of write_results
InTrending == pc \in {"yf_region", "yf_load_trending"}

\* the close-price phase of the invocation has returned
ClosePriceCompleted ==
    /\ bi = Len(Batches(tickers)) + 1
    /\ write_bq => (merge_job # "none" /\ truncate_job # "none")

\* C28: a request without n_round header is round 1; when the close-price
\* phase of write_results has returned, the trending retrieval (and, the write
\* flag being on, the trending load) runs if and only if n_round = 1; the
\* trending part is entered only then, and for n_round other than 1 no
\* trending request and no trending-table write is ever issued.
C28_TrendingOnlyRoundOne ==
    /\ [][ (pc = "ep_parse" /\ header = "absent") => n_round' = 1 ]_vars
    /\ [][ (pc = "yf_trending" /\ pc' # "yf_trending")
            => /\ ClosePriceCompleted
               /\ (pc' = "yf_region") <=> (n_round = 1)
               /\ (n_round # 1) => pc' = AfterReturn("write_results") ]_vars
    /\ [][ (pc = "yf_region" /\ pc' # "yf_region")
            => pc' = IF write_bq THEN "yf_load_trending"
                                 ELSE AfterReturn("write_results") ]_vars
    /\ []( InTrending => (n_round = 1 /\ exc = NoExc /\ ClosePriceCompleted) )
    /\ []( n_round # 1
            => /\ ~InTrending
               /\ yf_regions = <<>>
               /\ trending_table = <<>>
               /\ \A k \in 1..Len(jobs) : jobs[k].table # "trending" )

\* C28 witness: watchman_yahoo_finance was invoked without n_round header and
\* has returned after loading the trending tickers.
C28_Witness ==
    /\ entry = "watchman_yahoo_finance"
    /\ header = "absent"
    /\ n_round = 1
    /\ pc = "ep_returned"
    /\ trending_table # <<>>

\* no two rows of table T hold the same (ticker, day)
UniqueOnTickerDay(T) ==
    \A i, j \in 1..Len(T) : SameKey(T[i], T[j]) => i = j

\* C29: the main close-price table, which holds at most one row per
\* (ticker, day) before the first run, holds at most one row per (ticker, day)
\* after any sequence of close-price runs.
C29_MainKeyedByTickerDay == UniqueOnTickerDay(main_table)

\* C30: when an attempt of a batch failed part-way and a later attempt
\* succeeded, the batch's result holds each (ticker, day) row of the
\* successful response exactly once and no row of the failed attempt.
C30_FailedAttemptLeavesNoTrace ==
    ( /\ bi \in 1..Len(Batches(tickers))
      /\ Len(attempts) > 0
      /\ attempts[Len(attempts)] = "ok" )
    => df = YahooRows(Batches(tickers)[bi], yf_absent)

\* the load jobs of the invocation on table t
LoadsOn(t) == {k \in 1..Len(jobs) : jobs[k].kind = "load" /\ jobs[k].table = t}

\* the pagination of a Reddit or Twitter call is under way
Paginating == pc \in {"rd_new_loop", "rd_hot_loop", "tw_get_page", "tw_check", "tw_set_index"}

\* C31: get_new_posts, get_hot_posts and write_results issue at most one load
\* job per call, once the pagination has ended; the destination table changes
\* only by a load job that ends DONE and then receives the whole result of the
\* call; while a call paginates, and when a page fetch or a normalization
\* raises, no load job was issued on its table and the table is as it was
\* before the call.
C31_LoadAllOrNothing ==
    /\ []( \A t \in {"new_posts", "hot_posts", "tweets"} : Cardinality(LoadsOn(t)) <= 1 )
    /\ []( pc \in {"rd_new_start", "rd_new_loop"} =>
              (LoadsOn("new_posts") = {} /\ new_posts_table = <<>>) )
    /\ []( pc \in {"rd_hot_start", "rd_hot_loop"} =>
              (LoadsOn("hot_posts") = {} /\ hot_posts_table = <<>>) )
    /\ []( pc \in {"tw_start", "tw_get_page", "tw_check", "tw_set_index"} =>
              (LoadsOn("tweets") = {} /\ tweets_table = <<>>) )
    /\ [][ (Paginating /\ exc' # NoExc)
            => /\ UNCHANGED <<jobs, new_posts_table, hot_posts_table, tweets_table>>
               /\ pc' \in Aborted ]_vars
    /\ [][ (pc \in Aborted /\ yf_run' = yf_run)
            => (UNCHANGED <<jobs, new_posts_table, hot_posts_table, tweets_table>>) ]_vars
    /\ [][ new_posts_table' # new_posts_table
            => /\ pc = "rd_new_load"
               /\ jobs' = Append(jobs, [kind |-> "load", table |-> "new_posts", state |-> "DONE"])
               /\ new_posts_table' = new_posts_table \o posts ]_vars
    /\ [][ hot_posts_table' # hot_posts_table
            => /\ pc = "rd_hot_load"
               /\ jobs' = Append(jobs, [kind |-> "load", table |-> "hot_posts", state |-> "DONE"])
               /\ hot_posts_table' = hot_posts_table \o posts ]_vars
    /\ [][ tweets_table' # tweets_table
            => /\ pc = "tw_load"
               /\ jobs' = Append(jobs, [kind |-> "load", table |-> "tweets", state |-> "DONE"])
               /\ tweets_table' = tweets_table \o df_results ]_vars
    /\ [][ (pc \in {"rd_new_load", "rd_hot_load", "tw_load"} /\ exc' = NoExc)
            => <<new_posts_table', hot_posts_table', tweets_table'>>
               # <<new_posts_table, hot_posts_table, tweets_table>> ]_vars

\* C31 witness: in watchman, get_new_posts loaded its posts and a page of
\* get_hot_posts then raised: the hot posts table is untouched.
C31_Witness ==
    /\ entry = "watchman"
    /\ pc = "ep_returned"
    /\ exc.type \notin {"none", "LoadFailure"}
    /\ new_posts_table # <<>>
    /\ LoadsOn("hot_posts") = {}
    /\ hot_posts_table = <<>>
    /\ rd_requests # <<>>

\* C32: write_results terminates whatever the server answers: a page after
\* which the loop goes on has added at least one row, so the number of page
\* fetches of a run never exceeds the number of rows fetched plus one (which
\* the loop condition keeps below max_results plus one page).
C32_FetchesBounded ==
    /\ [][ (pc = "tw_check" /\ pc' = "tw_get_page")
            => Len(df_results') > Len(df_results) ]_vars
    /\ []( InTwWriteResults => Len(tw_pages) <= Len(df_results) + 1 )

\* the close-price run was aborted by the failure of a load job of a batch
ClosePriceLoadAborted ==
    /\ entry \in YahooEntries
    /\ pc \in Aborted
    /\ \E k \in FailedLoads : jobs[k].table \in {"delta", "not_found"}

\* the load jobs of the run on the delta table that ended DONE
DeltaLoadsDone ==
    {k \in 1..Len(jobs) : /\ jobs[k].kind = "load" /\ jobs[k].table = "delta"
                          /\ jobs[k].state = "DONE"}

\* a close-price run has ended without error
ClosePriceRunCompleted ==
    /\ entry \in YahooEntries
    /\ pc \in {"returned", "ep_returned"}
    /\ exc = NoExc

\* C33: a close-price run aborted by a load failure in batch k leaves the
\* main table unchanged (the main table changes only by a MERGE, and the run
\* issued none) and the delta table not truncated (the delta table loses rows
\* only by a TRUNCATE, and the run issued none; the loads of the batches before
\* k are DONE); and the delta table is empty at the end of every run that
\* completes without error.
C33_AbortKeepsDelta ==
    /\ [][ main_table' # main_table => merge_job = "pending" ]_vars
    /\ [][ Len(delta_table') < Len(delta_table) => truncate_job = "pending" ]_vars
    /\ []( ClosePriceLoadAborted
            => /\ merge_job = "none" /\ truncate_job = "none"
               /\ Cardinality(DeltaLoadsDone) >= bi - 1
               /\ Len(delta_table) >= Cardinality(DeltaLoadsDone) )
    /\ []( ClosePriceRunCompleted => delta_table = <<>> )

\* the invocation has started the Twitter watcher, or left a trace of it
TwitterTouched ==
    \/ pc \in {"tw_start", "tw_get_page", "tw_check", "tw_set_index", "tw_load"}
    \/ url # NoUrl \/ tw_pages # <<>> \/ response # NoResponse
    \/ df_results # <<>> \/ tweets_table # <<>> \/ LoadsOn("tweets") # {}

\* Reddit authentication, get_new_posts and get_hot_posts have completed,
\* loads included
RedditCompleted ==
    /\ rd_headers
    /\ \E k \in LoadsOn("new_posts") : jobs[k].state = "DONE"
    /\ \E k \in LoadsOn("hot_posts") : jobs[k].state = "DONE"
    /\ new_posts_table # <<>> /\ hot_posts_table # <<>>

\* the thread is in the Reddit part of the invocation
InReddit ==
    pc \in {"rd_auth", "rd_new_start", "rd_new_loop", "rd_new_load",
            "rd_hot_start", "rd_hot_loop", "rd_hot_load"}

\* C34: in watchman the Twitter fetch and load start only once Reddit
\* authentication, get_new_posts and get_hot_posts, loads included, have
\* completed without raising, and they start then; a failure in the Reddit
\* part ends the invocation at once, with no Twitter request issued and no
\* tweet row written.
C34_TwitterAfterReddit ==
    /\ []( (entry = "watchman" /\ TwitterTouched)
            => (RedditCompleted /\ (InTwWriteResults \/ pc = "tw_start" => exc = NoExc)) )
    /\ [][ (entry = "watchman" /\ InReddit /\ exc' # NoExc)
            => (pc' = "ep_except" /\ ~TwitterTouched') ]_vars
    /\ [][ (entry = "watchman" /\ pc = "rd_hot_load" /\ exc' = NoExc)
            => pc' = "tw_start" ]_vars
    /\ []( (entry = "watchman" /\ pc = "ep_returned" /\ ~RedditCompleted)
            => (~TwitterTouched /\ exc # NoExc) )

\* C34 witness: watchman ended on a failure of get_hot_posts, after
\* get_new_posts had loaded its posts; nothing of Twitter has happened.
C34_Witness ==
    /\ entry = "watchman"
    /\ pc = "ep_returned"
    /\ new_posts_table # <<>>
    /\ ~RedditCompleted
    /\ ~TwitterTouched
    /\ ep_ret = PyStr("Query failed due to $message.")

\* the warehouse tables a run may write
Warehouse ==
    <<new_posts_table, hot_posts_table, tweets_table, delta_table, main_table,
      not_found_table, trending_table>>

\* C35: with the write flag off a run modifies no warehouse table and issues
\* no load job, no MERGE and no TRUNCATE, whatever it fetched and whatever the
\* round number.
C35_WriteFlagOffNoWrite ==
    /\ []( ~write_bq => /\ jobs = <<>>
                        /\ merge_job = "none" /\ truncate_job = "none"
                        /\ pc \notin {"tw_load", "rd_new_load", "rd_hot_load",
                                      "yf_load_delta", "yf_load_not_found",
                                      "yf_merge", "yf_truncate", "yf_load_trending"} )
    /\ [][ ~write_bq => Warehouse' = Warehouse ]_vars

\* C35 witness: write_results of the Yahoo Finance watcher, round 1, write
\* flag off, has returned with prices and trending tickers fetched.
C35_Witness ==
    /\ ~write_bq
    /\ entry = "YahooFinanceWatcher.write_results"
    /\ n_round = 1
    /\ pc = "returned"
    /\ df # <<>> /\ trending_df # <<>>
    /\ jobs = <<>>
    /\ delta_table = <<>> /\ trending_table = <<>>

====
